---- MODULE Spec2Model ----
(***************************************************************************)
(* Model of inject.invokers.Invoker (python-inject, Python 2).             *)
(*                                                                         *)
(* Objects are references <<kind, n>>.  The heap of Invoker objects is the *)
(* three slots of __slots__ (method, injection, _hash), one function per   *)
(* slot.  Callers run __call__ and __hash__ statement by statement, so     *)
(* that invocations and hash calls of several callers interleave.          *)
(***************************************************************************)
EXTENDS Integers, Sequences, FiniteSets, TLC

\* ------------------------------------------------------------------ bounds
\* Number of Invoker objects the heap can hold.
MaxInvokers == 2
\* Number of Invoker objects built in the scenarios in which callers hash,
\* invoke or look up concurrently.
MaxShared == 1
\* Number of distinct instances the injection mechanism may hand out per type.
MaxInstances == 2
\* Number of entries the hash-based mapping can hold.
MaxDict == 2

\* ---------------------------------------------------------------- universe
Types == {"A", "B"}
Funcs == {"fA", "fB"}
HashVals == {0, 1}
Callers == {"c1", "c2"}

NoRef == <<"unset", 0>>
\* Two accesses of A.method (two objects, one function), and B.method.
UnboundMethods == {<<"unbound", 1>>, <<"unbound", 2>>, <<"unbound", 3>>}
BoundMethod == <<"bound", 1>>
FreeFunction == <<"function", 1>>
PlainValue == <<"value", 1>>
\* An object exposing im_class and im_func but no im_self attribute.
PartialObject == <<"partial", 1>>
InvokerRefs == {<<"Invoker", i>> : i \in 1..MaxInvokers}
Instances(T) == {<<T, k>> : k \in 1..MaxInstances}
PlainObjects == UnboundMethods \cup {BoundMethod, FreeFunction, PlainValue, PartialObject}

IsInvoker(x) == x[1] = "Invoker"
IsMethodObject(x) == x[1] \in {"unbound", "bound"}

\* Attribute tables of the objects that can be handed to Invoker(...).
HasAttr(x, attr) ==
    CASE x[1] \in {"unbound", "bound"} -> attr \in {"im_class", "im_self", "im_func"}
      [] x[1] = "partial" -> attr \in {"im_class", "im_func"}
      [] OTHER -> FALSE
ImClass(x) == IF x = <<"unbound", 3>> THEN "B" ELSE "A"
ImFunc(x) == IF x = <<"unbound", 3>> THEN "fB" ELSE "fA"
ImSelf(x) == IF x[1] = "bound" THEN <<"A", 1>> ELSE <<"None", 0>>
PyNone == <<"None", 0>>

\* Optional hash value: <<>> is None, <<h>> is the integer h.
None == <<>>
Some(h) == <<h>>

\* ------------------------------------------------------------------- state
VARIABLES
    live,        \* Invoker objects that exist (were returned by Invoker(...))
    method,      \* slot `method` of every Invoker
    injection,   \* slot `injection` of every Invoker: the handle's type
    hashSlot,    \* slot `_hash` of every Invoker
    wrapped,     \* history: the argument each Invoker was first built with
    reinit,      \* history: Invokers on which __init__ ran a second time
    funcHash,    \* current hash of every function object
    firstHash,   \* history: first value a hash call returned, per Invoker
    pc,          \* per caller: the statement it is at
    frame,       \* per caller: the locals of the running __call__/__hash__
    d,           \* a hash-based mapping: sequence of [key, hash, val]
    last         \* outcome of the operation that completed last

vars == <<live, method, injection, hashSlot, wrapped, reinit, funcHash, firstHash, pc, frame, d, last>>

heap == <<live, method, injection, hashSlot>>
fields == <<method, injection, hashSlot>>

\* ----------------------------------------------------- outcomes of operations
NoTerm == [func |-> "", recv |-> NoRef, args |-> <<>>, kwargs |-> {}]
\* Uniform record describing how an operation ended:
\*   op    the operation,            self  the Invoker it ran on,
\*   arg   its object argument,      args/kwargs  the call arguments,
\*   exc   the exception raised ("" when it returned),
\*   ref   an object result,         val   an integer result (-1: none),
\*   res   a textual result,         term  the value a method call returned,
\*   alloc whether a new Invoker object was allocated,
\*   nres  how many times the operation called get_instance,
\*   ncall how many times it called the wrapped method.
Outcome(op) ==
    [op |-> op, self |-> NoRef, arg |-> NoRef, args |-> <<>>, kwargs |-> {},
     exc |-> "", ref |-> NoRef, val |-> -1, res |-> "", term |-> NoTerm,
     alloc |-> FALSE, nres |-> 0, ncall |-> 0]

EmptyFrame ==
    [self |-> NoRef, inst |-> NoRef, args |-> <<>>, kwargs |-> {}, h |-> None, nres |-> 0]

\* --------------------------------------------- the injection mechanism
\* InjectionPoint(type): a handle for the type, or a failure to build one.
InjectionPointNew(T) ==
    {[exc |-> "", type |-> T], [exc |-> "NoBinding", type |-> ""]}
\* handle.get_instance(): a live instance of the handle's type, or a failure.
GetInstance(T) ==
    {[exc |-> "", inst |-> i] : i \in Instances(T)}
        \cup {[exc |-> "ResolutionError", inst |-> NoRef]}

\* ------------------------------------------------------------ construction
\* The test of __new__: the three attributes exist and im_self is None.
Qualifies(c) ==
    /\ HasAttr(c, "im_class")
    /\ HasAttr(c, "im_self")
    /\ HasAttr(c, "im_func")
    /\ ImSelf(c) = PyNone

FreeRefs == InvokerRefs \ live
FreshRef == CHOOSE r \in FreeRefs : \A q \in FreeRefs : r[2] <= q[2]

\* Invoker.__new__(cls, method): a new object for an unbound method, the
\* argument itself otherwise.
New(c) == IF Qualifies(c) THEN FreshRef ELSE c

\* Invoker.__init__(self, method) on the object obj, with the outcome o of
\* building the injection handle.  The slot `method` is assigned before the
\* handle is built; an object that was only just allocated and whose
\* __init__ raises is never returned, and is reclaimed.
RunInit(obj, c, o) ==
    IF o.exc = ""
    THEN /\ method' = [method EXCEPT ![obj] = c]
         /\ injection' = [injection EXCEPT ![obj] = o.type]
         /\ hashSlot' = [hashSlot EXCEPT ![obj] = None]
         /\ live' = live \cup {obj}
         /\ wrapped' = IF obj \in live THEN wrapped ELSE [wrapped EXCEPT ![obj] = c]
         /\ firstHash' = IF obj \in live THEN firstHash ELSE [firstHash EXCEPT ![obj] = None]
         /\ last' = [Outcome("new") EXCEPT !.arg = c, !.ref = obj, !.alloc = obj \notin live]
    ELSE /\ method' = IF obj \in live THEN [method EXCEPT ![obj] = c] ELSE method
         /\ UNCHANGED <<injection, hashSlot, live, wrapped, firstHash>>
         /\ last' = [Outcome("new") EXCEPT !.arg = c, !.exc = o.exc, !.alloc = obj \notin live]

\* method.im_class, as __init__ evaluates it before calling the handle's
\* constructor.
HandleOutcomes(c) ==
    IF HasAttr(c, "im_class") THEN InjectionPointNew(ImClass(c))
    ELSE {[exc |-> "AttributeError", type |-> ""]}

\* The call Invoker(c): __new__, then __init__ on the result when the result
\* is an instance of Invoker.
Construct(c) ==
    /\ Qualifies(c) => FreeRefs # {}
    /\ LET obj == New(c) IN
       IF IsInvoker(obj)
       THEN /\ \E o \in HandleOutcomes(c) : RunInit(obj, c, o)
            /\ reinit' = IF obj \in live THEN reinit \cup {obj} ELSE reinit
       ELSE /\ last' = [Outcome("new") EXCEPT !.arg = c, !.ref = obj]
            /\ UNCHANGED <<heap, wrapped, reinit, firstHash>>
    /\ UNCHANGED <<funcHash, pc, frame, d>>

\* --------------------------------------------------------------- equality
\* Depth after which a chain of nested comparisons or hash calls is cut off
\* with Python's "maximum recursion depth exceeded" RuntimeError.  A chain
\* that ends at all ends within one step per Invoker plus two.
RecursionFuel == MaxInvokers + 2

Bool(b) == IF b THEN "True" ELSE "False"

\* Comparison of two method objects (instancemethod rich comparison):
\* equal when receiver and function are equal; the class is not compared.
MethodCmp(op, a, b) ==
    LET same == ImSelf(a) = ImSelf(b) /\ ImFunc(a) = ImFunc(b)
    IN  IF op = "eq" THEN Bool(same) ELSE Bool(~same)

RECURSIVE PyCmp(_, _, _, _)
\* Invoker.__eq__ / Invoker.__ne__: the comparison is handed to self.method.
InvokerCmpIdentity(op, self, other, fuel) ==
    IF op = "eq" THEN Bool(self = other) ELSE Bool(self # other)
InvokerCmp(op, self, other, fuel) == PyCmp(op, method[self], other, fuel)

\* Python's a == b / a != b: the left operand's comparison, then the
\* reflected one of the right operand, then comparison by identity.
PyCmp(op, a, b, fuel) ==
    IF fuel = 0 THEN "RuntimeError"
    ELSE IF IsInvoker(a) THEN InvokerCmp(op, a, b, fuel - 1)
    ELSE IF IsMethodObject(a) /\ IsMethodObject(b) THEN MethodCmp(op, a, b)
    ELSE IF IsInvoker(b) THEN InvokerCmp(op, b, a, fuel - 1)
    ELSE IF op = "eq" THEN Bool(a = b) ELSE Bool(a # b)

PyEq(a, b) == PyCmp("eq", a, b, RecursionFuel)
PyNe(a, b) == PyCmp("ne", a, b, RecursionFuel)

Values == PlainObjects \cup live

\* One comparison a == b or a != b in which an Invoker takes part.
Compare(op, a, b) ==
    /\ a \in Values /\ b \in Values
    /\ IsInvoker(a) \/ IsInvoker(b)
    /\ LET r == PyCmp(op, a, b, RecursionFuel) IN
       last' = [Outcome(op) EXCEPT !.self = a, !.arg = b,
                   !.exc = IF r = "RuntimeError" THEN r ELSE "",
                   !.res = IF r = "RuntimeError" THEN "" ELSE r]
    /\ UNCHANGED <<heap, wrapped, reinit, funcHash, firstHash, pc, frame, d>>

\* ----------------------------------------------------------------- hashing
\* hash(m) of a method object: decided by its function.
MethodHash(m) == funcHash[ImFunc(m)]

\* The function object's own hash changes (it depends on mutable state).
MutateHash(f) ==
    /\ \E h \in HashVals \ {funcHash[f]} : funcHash' = [funcHash EXCEPT ![f] = h]
    /\ UNCHANGED <<heap, wrapped, reinit, firstHash, pc, frame, d, last>>

\* The test `_hash is None`.
IsAbsentFalsy(h) == h = None \/ h = Some(0)
IsAbsent(h) == h = None

\* The Invoker hashed by its own identity instead of by its method.
HashOfMethodIdentity(v) == [exc |-> "", val |-> v[2] % 2]
\* hash(self.method) as __hash__ evaluates it.  When the slot holds the
\* Invoker itself the nested __hash__ returns the memoized value, or never
\* ends when there is none.
HashOfMethod(v) ==
    LET m == method[v] IN
    IF IsInvoker(m)
    THEN IF IsAbsent(hashSlot[m]) THEN [exc |-> "RuntimeError", val |-> -1]
         ELSE [exc |-> "", val |-> hashSlot[m][1]]
    ELSE [exc |-> "", val |-> MethodHash(m)]

NoteFirst(v, h) ==
    IF firstHash[v] = None THEN [firstHash EXCEPT ![v] = Some(h)] ELSE firstHash

\* __hash__, `_hash = self._hash` and the test: return the memoized value,
\* or go on to compute it.
HashRead(t, v) ==
    /\ pc[t] = "idle" /\ v \in live
    /\ IF IsAbsent(hashSlot[v])
       THEN /\ pc' = [pc EXCEPT ![t] = "hash_compute"]
            /\ frame' = [frame EXCEPT ![t] = [EmptyFrame EXCEPT !.self = v]]
            /\ UNCHANGED <<last, firstHash>>
       ELSE /\ last' = [Outcome("hash") EXCEPT !.self = v, !.val = hashSlot[v][1], !.res = "memo"]
            /\ firstHash' = NoteFirst(v, hashSlot[v][1])
            /\ UNCHANGED <<pc, frame>>
    /\ UNCHANGED <<heap, wrapped, reinit, funcHash, d>>

\* __hash__, `_hash = hash(self.method)`.
HashCompute(t) ==
    /\ pc[t] = "hash_compute"
    /\ LET v == frame[t].self
           o == HashOfMethod(v)
       IN  IF o.exc = ""
           THEN /\ pc' = [pc EXCEPT ![t] = "hash_store"]
                /\ frame' = [frame EXCEPT ![t].h = Some(o.val)]
                /\ UNCHANGED last
           ELSE /\ pc' = [pc EXCEPT ![t] = "idle"]
                /\ frame' = [frame EXCEPT ![t] = EmptyFrame]
                /\ last' = [Outcome("hash") EXCEPT !.self = v, !.exc = o.exc]
    /\ UNCHANGED <<heap, wrapped, reinit, funcHash, firstHash, d>>

\* __hash__ storing a value other than the one it returns.
HashStoreOther(t) ==
    /\ pc[t] = "hash_store"
    /\ LET v == frame[t].self
           h == frame[t].h[1]
       IN  /\ hashSlot' = [hashSlot EXCEPT ![v] = Some((h + 1) % 2)]
           /\ last' = [Outcome("hash") EXCEPT !.self = v, !.val = h, !.res = "computed"]
           /\ firstHash' = NoteFirst(v, h)
    /\ pc' = [pc EXCEPT ![t] = "idle"]
    /\ frame' = [frame EXCEPT ![t] = EmptyFrame]
    /\ UNCHANGED <<live, method, injection, wrapped, reinit, funcHash, d>>
\* __hash__, `self._hash = _hash; return _hash`.
HashStore(t) ==
    /\ pc[t] = "hash_store"
    /\ LET v == frame[t].self
           h == frame[t].h[1]
       IN  /\ hashSlot' = [hashSlot EXCEPT ![v] = Some(h)]
           /\ last' = [Outcome("hash") EXCEPT !.self = v, !.val = h, !.res = "computed"]
           /\ firstHash' = NoteFirst(v, h)
    /\ pc' = [pc EXCEPT ![t] = "idle"]
    /\ frame' = [frame EXCEPT ![t] = EmptyFrame]
    /\ UNCHANGED <<live, method, injection, wrapped, reinit, funcHash, d>>

\* -------------------------------------------------------------- invocation
\* Argument lists a caller passes: nothing, or one positional argument and
\* one keyword argument.
ArgLists == {<<>>, <<"x">>}
KwArgSets == {{}, {<<"k", "y">>}}
CallArgs == {<<<<>>, {}>>, <<<<"x">>, {<<"k", "y">>}>>}

\* The body of the wrapped functions, `def method(self, arg, ...)`: it needs
\* one positional argument besides the receiver and raises without it.
BodyRaises(f, args, kwargs) == Len(args) # 1

\* m(recv, *args, **kwargs) for the object m held in the slot `method`.  The
\* term names the call that was made; exc is what it raised, if anything.
\* An unbound method checks that its receiver is an instance of its class.
\* An Invoker held in the slot is invoked again, and again, until Python's
\* recursion limit ends the chain.
MethodCall(m, recv, args, kwargs) ==
    IF IsInvoker(m) THEN [exc |-> "RuntimeError", term |-> NoTerm]
    ELSE LET term == [func |-> ImFunc(m), recv |-> recv, args |-> args, kwargs |-> kwargs]
         IN  IF recv[1] # ImClass(m) THEN [exc |-> "TypeError", term |-> NoTerm]
             ELSE IF BodyRaises(ImFunc(m), args, kwargs)
                  THEN [exc |-> "MethodError", term |-> term]
                  ELSE [exc |-> "", term |-> term]

\* __call__ for which a failed resolution is swallowed and the method is
\* called with None as its receiver.
CallResolveSwallow(t, v, args, kwargs) ==
    /\ pc[t] = "idle" /\ v \in live
    /\ \E o \in GetInstance(injection[v]) :
          /\ pc' = [pc EXCEPT ![t] = "call_method"]
          /\ frame' = [frame EXCEPT ![t] = [EmptyFrame EXCEPT
                          !.self = v, !.inst = IF o.exc = "" THEN o.inst ELSE PyNone,
                          !.args = args, !.kwargs = kwargs, !.nres = 1]]
          /\ UNCHANGED last
    /\ UNCHANGED <<heap, wrapped, reinit, funcHash, firstHash, d>>
\* __call__, `inst = self.injection.get_instance()`.
CallResolve(t, v, args, kwargs) ==
    /\ pc[t] = "idle" /\ v \in live
    /\ \E o \in GetInstance(injection[v]) :
          IF o.exc = ""
          THEN /\ pc' = [pc EXCEPT ![t] = "call_method"]
               /\ frame' = [frame EXCEPT ![t] = [EmptyFrame EXCEPT
                               !.self = v, !.inst = o.inst, !.args = args,
                               !.kwargs = kwargs, !.nres = 1]]
               /\ UNCHANGED last
          ELSE /\ last' = [Outcome("call") EXCEPT !.self = v, !.args = args,
                              !.kwargs = kwargs, !.exc = o.exc, !.nres = 1]
               /\ UNCHANGED <<pc, frame>>
    /\ UNCHANGED <<heap, wrapped, reinit, funcHash, firstHash, d>>

\* A receiver kept in a place the invocations of one Invoker share: the
\* instance another invocation in progress has resolved, when there is one.
ReceiverShared(t) ==
    LET others == {u \in Callers \ {t} :
                      pc[u] = "call_method" /\ frame[u].self = frame[t].self}
    IN  IF others = {} THEN frame[t].inst ELSE frame[CHOOSE u \in others : TRUE].inst
\* The receiver __call__ passes: its own local `inst`.
Receiver(t) == frame[t].inst

\* self.method(inst, *args) with the keyword arguments dropped.
DispatchNoKwargs(v, recv, args, kwargs) == MethodCall(method[v], recv, args, {})
\* self.method(inst, *args, **kwargs).
Dispatch(v, recv, args, kwargs) == MethodCall(method[v], recv, args, kwargs)

\* __call__, `return self.method(inst, *args, **kwargs)`.
CallMethod(t) ==
    /\ pc[t] = "call_method"
    /\ LET v == frame[t].self
           o == Dispatch(v, Receiver(t), frame[t].args, frame[t].kwargs)
       IN  /\ last' = [Outcome("call") EXCEPT !.self = v, !.args = frame[t].args,
                          !.kwargs = frame[t].kwargs, !.ref = frame[t].inst,
                          !.exc = o.exc, !.term = o.term,
                          !.nres = frame[t].nres, !.ncall = 1]
    /\ pc' = [pc EXCEPT ![t] = "idle"]
    /\ frame' = [frame EXCEPT ![t] = EmptyFrame]
    /\ UNCHANGED <<heap, wrapped, reinit, funcHash, firstHash, d>>

\* ------------------------------------------------------ hash-based mapping
DictVals == {"p", "q"}
Keys == UnboundMethods \cup live

\* hash(k) with an Invoker hashed by its identity.
KeyHashIdentity(k) ==
    IF ~IsInvoker(k) THEN [exc |-> "", val |-> MethodHash(k)]
    ELSE [exc |-> "", val |-> k[2] % 2]
\* hash(k) as the mapping calls it: Invoker.__hash__ run to its end for an
\* Invoker, the method object's hash otherwise.
KeyHash(k) ==
    IF ~IsInvoker(k) THEN [exc |-> "", val |-> MethodHash(k)]
    ELSE IF IsAbsent(hashSlot[k]) THEN HashOfMethod(k)
    ELSE [exc |-> "", val |-> hashSlot[k][1]]

\* The slot `_hash` after the mapping hashed the key k with outcome o.
SlotAfterKeyHash(k, o) ==
    IF IsInvoker(k) /\ o.exc = "" THEN [hashSlot EXCEPT ![k] = Some(o.val)] ELSE hashSlot
FirstAfterKeyHash(k, o) ==
    IF IsInvoker(k) /\ o.exc = "" THEN NoteFirst(k, o.val) ELSE firstHash

\* The entries a lookup of k with hash h stops at: same hash, and the stored
\* key is the same object or compares equal (stored_key == k).
Hits(k, h) ==
    {i \in 1..Len(d) : d[i].hash = h /\ (d[i].key = k \/ PyEq(d[i].key, k) # "False")}
FirstHit(k, h) == CHOOSE i \in Hits(k, h) : \A j \in Hits(k, h) : i <= j
HitRaises(k, i) == d[i].key # k /\ PyEq(d[i].key, k) = "RuntimeError"

\* d[k] = val
DictSet(k, val) ==
    /\ k \in Keys
    /\ LET o == KeyHash(k) IN
       /\ hashSlot' = SlotAfterKeyHash(k, o)
       /\ firstHash' = FirstAfterKeyHash(k, o)
       /\ IF o.exc # ""
          THEN /\ last' = [Outcome("set") EXCEPT !.arg = k, !.exc = o.exc]
               /\ UNCHANGED d
          ELSE IF Hits(k, o.val) = {}
          THEN /\ Len(d) < MaxDict
               /\ d' = Append(d, [key |-> k, hash |-> o.val, val |-> val])
               /\ last' = [Outcome("set") EXCEPT !.arg = k, !.res = val, !.val = o.val]
          ELSE LET i == FirstHit(k, o.val) IN
               IF HitRaises(k, i)
               THEN /\ last' = [Outcome("set") EXCEPT !.arg = k, !.exc = "RuntimeError"]
                    /\ UNCHANGED d
               ELSE /\ d' = [d EXCEPT ![i].val = val]
                    /\ last' = [Outcome("set") EXCEPT !.arg = k, !.res = val, !.val = o.val]
    /\ UNCHANGED <<live, method, injection, wrapped, reinit, funcHash, pc, frame>>

\* d[k]
DictGet(k) ==
    /\ k \in Keys
    /\ LET o == KeyHash(k) IN
       /\ hashSlot' = SlotAfterKeyHash(k, o)
       /\ firstHash' = FirstAfterKeyHash(k, o)
       /\ IF o.exc # ""
          THEN last' = [Outcome("get") EXCEPT !.arg = k, !.exc = o.exc]
          ELSE IF Hits(k, o.val) = {}
          THEN last' = [Outcome("get") EXCEPT !.arg = k, !.exc = "KeyError"]
          ELSE LET i == FirstHit(k, o.val) IN
               IF HitRaises(k, i)
               THEN last' = [Outcome("get") EXCEPT !.arg = k, !.exc = "RuntimeError"]
               ELSE last' = [Outcome("get") EXCEPT !.arg = k, !.res = d[i].val, !.val = o.val]
    /\ UNCHANGED <<live, method, injection, wrapped, reinit, funcHash, pc, frame, d>>

\* ----------------------------------------------------------- specification
Init ==
    /\ live = {}
    /\ method = [r \in InvokerRefs |-> NoRef]
    /\ injection = [r \in InvokerRefs |-> ""]
    /\ hashSlot = [r \in InvokerRefs |-> None]
    /\ wrapped = [r \in InvokerRefs |-> NoRef]
    /\ reinit = {}
    /\ funcHash = [f \in Funcs |-> IF f = "fA" THEN 0 ELSE 1]
    /\ firstHash = [r \in InvokerRefs |-> None]
    /\ pc = [t \in Callers |-> "idle"]
    /\ frame = [t \in Callers |-> EmptyFrame]
    /\ d = <<>>
    /\ last = Outcome("none")

\* Invoker(c), with at most n Invoker objects built.
ConstructUpTo(n, c) ==
    /\ Qualifies(c) => Cardinality(live) < n
    /\ Construct(c)

\* The whole machine: every operation, by every caller, on every object.
Next ==
    \/ \E c \in Values : Construct(c)
    \/ \E t \in Callers, v \in InvokerRefs, a \in ArgLists, k \in KwArgSets :
          CallResolve(t, v, a, k)
    \/ \E t \in Callers : CallMethod(t)
    \/ \E t \in Callers, v \in InvokerRefs : HashRead(t, v)
    \/ \E t \in Callers : HashCompute(t)
    \/ \E t \in Callers : HashStore(t)
    \/ \E op \in {"eq", "ne"}, a \in Values, b \in Values : Compare(op, a, b)
    \/ \E k \in Keys, val \in DictVals : DictSet(k, val)
    \/ \E k \in Keys : DictGet(k)
    \/ \E f \in Funcs : MutateHash(f)

Spec == Init /\ [][Next]_vars

\* Construction only.
NextNew == \E c \in Values : Construct(c)
SpecNew == Init /\ [][NextNew]_vars

\* Construction and comparisons.
NextCmp ==
    \/ \E c \in Values : Construct(c)
    \/ \E op \in {"eq", "ne"}, a \in Values, b \in Values : Compare(op, a, b)
SpecCmp == Init /\ [][NextCmp]_vars

\* Construction and invocations by concurrent callers.
NextCall ==
    \/ \E c \in Values : ConstructUpTo(MaxShared, c)
    \/ \E t \in Callers, v \in InvokerRefs, ak \in CallArgs :
          CallResolve(t, v, ak[1], ak[2])
    \/ \E t \in Callers : CallMethod(t)
SpecCall == Init /\ [][NextCall]_vars

\* Construction and hash calls by concurrent callers, of Invokers whose
\* methods keep their hash.
NextHash ==
    \/ \E c \in Values : ConstructUpTo(MaxShared, c)
    \/ \E t \in Callers, v \in InvokerRefs : HashRead(t, v)
    \/ \E t \in Callers : HashCompute(t)
    \/ \E t \in Callers : HashStore(t)
SpecHash == Init /\ [][NextHash]_vars

\* A caller starts or continues an invocation or a hash call only while no
\* other caller is inside one.
Alone(t) == \A u \in Callers \ {t} : pc[u] = "idle"

\* Sequential use with the wrapped method's hash changing between the steps.
NextSeq ==
    \/ \E c \in Values : ConstructUpTo(MaxShared, c)
    \/ \E t \in Callers, v \in InvokerRefs : Alone(t) /\ HashRead(t, v)
    \/ \E t \in Callers : Alone(t) /\ HashCompute(t)
    \/ \E t \in Callers : Alone(t) /\ HashStore(t)
    \/ \E f \in Funcs : MutateHash(f)
SpecSeq == Init /\ [][NextSeq]_vars

\* Steady-state use: invocations, comparisons and hash calls, one at a time
\* and in any order, of Invokers whose methods keep their hash.
NextSteady ==
    \/ \E c \in Values : ConstructUpTo(MaxShared, c)
    \/ \E t \in Callers, v \in InvokerRefs, ak \in CallArgs :
          Alone(t) /\ CallResolve(t, v, ak[1], ak[2])
    \/ \E t \in Callers : Alone(t) /\ CallMethod(t)
    \/ \E t \in Callers, v \in InvokerRefs : Alone(t) /\ HashRead(t, v)
    \/ \E t \in Callers : Alone(t) /\ HashCompute(t)
    \/ \E t \in Callers : Alone(t) /\ HashStore(t)
    \/ \E op \in {"eq", "ne"}, a \in live, b \in UnboundMethods :
          (\A t \in Callers : pc[t] = "idle") /\ Compare(op, a, b)
SpecSteady == Init /\ [][NextSteady]_vars

\* Construction and a hash-based mapping.
NextDict ==
    \/ \E c \in Values : ConstructUpTo(MaxShared, c)
    \/ \E k \in Keys, val \in DictVals : DictSet(k, val)
    \/ \E k \in Keys : DictGet(k)
SpecDict == Init /\ [][NextDict]_vars

\* ------------------------------------------------------------- properties
\* An Invoker as Invoker(m) returned it: __init__ has not run on it again.
Pristine(v) == v \in live /\ v \notin reinit
\* The method object a key stands for.
Unwrap(k) == IF IsInvoker(k) THEN wrapped[k] ELSE k
SameKey(a, b) == MethodCmp("eq", Unwrap(a), Unwrap(b)) = "True"
GoodKeys == UnboundMethods \cup (live \ reinit)

\* C1: Invoker(c) returns c itself, allocating nothing, for every c that is
\* not an unbound method reference, and a newly allocated Invoker distinct
\* from c for every c that is one (when building its injection handle
\* succeeds).
C1_ConditionalConstructor ==
    last.op = "new" =>
        IF Qualifies(last.arg)
        THEN last.exc = "" => (IsInvoker(last.ref) /\ last.ref # last.arg /\ last.alloc)
        ELSE last.exc = "" /\ last.ref = last.arg /\ ~last.alloc

\* C2: Invoker(c) for a non-qualifying c, an existing Invoker included, never
\* raises and leaves the slots of every existing Invoker as they were, so
\* that every Invoker still holds the unbound method it was built with.
C2_NonQualifyingIsNoOp ==
    /\ [][\A c \in Values : (~Qualifies(c) /\ Construct(c)) =>
              (last'.exc = "" /\ UNCHANGED fields)]_vars
    /\ [](\A v \in live : method[v] = wrapped[v] /\ Qualifies(method[v]))

\* C3: a call Invoker(m)(*args, **kwargs) that gets as far as the method
\* resolved an instance i of m's class from the handle and ends exactly as
\* m(i, *args, **kwargs) ends, i being the receiver and the arguments being
\* the caller's.
C3_CallDispatches ==
    (last.op = "call" /\ last.ncall = 1 /\ Pristine(last.self)) =>
        LET m == wrapped[last.self] IN
        /\ last.ref \in Instances(ImClass(m))
        /\ MethodCall(m, last.ref, last.args, last.kwargs)
              = [exc |-> last.exc, term |-> last.term]
W_C3 ==
    /\ last.op = "call" /\ last.exc = "" /\ Pristine(last.self)
    /\ last.args = <<"x">> /\ last.kwargs = {<<"k", "y">>}
    /\ last.term.recv = last.ref

\* C4: an invocation whose get_instance raises ends with that failure after
\* one resolution and no call of the method, and changes no slot; the method
\* is only ever called with an instance that was resolved; a failure of the
\* method itself ends the invocation after one resolution and one call.
C4_FailuresPropagate ==
    /\ [](last.op = "call" /\ last.exc = "ResolutionError" =>
              last.nres = 1 /\ last.ncall = 0 /\ last.term = NoTerm)
    /\ [](last.op = "call" /\ last.exc = "MethodError" =>
              /\ last.nres = 1 /\ last.ncall = 1
              /\ last.term.recv = last.ref /\ last.term.args = last.args
              /\ last.term.kwargs = last.kwargs)
    /\ [][\A t \in Callers, v \in InvokerRefs, ak \in CallArgs :
              CallResolve(t, v, ak[1], ak[2]) =>
                  /\ UNCHANGED fields
                  /\ pc'[t] = "call_method" =>
                        frame'[t].inst \in Instances(injection[v])
                  /\ pc'[t] = "idle" =>
                        /\ last'.op = "call" /\ last'.self = v
                        /\ last'.exc = "ResolutionError"]_vars
W_C4 == last.op = "call" /\ last.exc = "ResolutionError" /\ last.args = <<"x">>

\* C5: every hash call on an Invoker built from m returns hash(m), the first
\* one and every later one, whatever invocations, comparisons and hash calls
\* came before.
C5_HashIsMethodHash ==
    /\ (last.op = "hash" /\ last.exc = "" /\ Pristine(last.self)) =>
           last.val = MethodHash(wrapped[last.self])
    /\ \A v \in live \ reinit :
           hashSlot[v] # None => hashSlot[v][1] = MethodHash(wrapped[v])
W_C5 ==
    /\ last.op = "hash" /\ last.res = "memo"
    /\ Pristine(last.self)

\* C6: for an Invoker v built from m and any value X, v == X gives what
\* m == X gives and v != X what m != X gives; v == m and m == v are true.
C6_EqualityDelegates ==
    /\ \A v \in live \ reinit : \A X \in Values \ reinit :
          /\ PyEq(v, X) = PyEq(wrapped[v], X)
          /\ PyNe(v, X) = PyNe(wrapped[v], X)
          /\ PyEq(X, v) = PyEq(X, wrapped[v])
          /\ PyEq(v, X) \in {"True", "False"}
    /\ \A v \in live \ reinit :
          /\ PyEq(v, wrapped[v]) = "True"
          /\ PyEq(wrapped[v], v) = "True"
          /\ PyNe(v, wrapped[v]) = "False"
    /\ (last.op \in {"eq", "ne"} /\ Pristine(last.self) /\ last.arg \notin reinit) =>
          /\ last.exc = ""
          /\ last.res = PyCmp(last.op, wrapped[last.self], last.arg, RecursionFuel)
W_C6 ==
    /\ last.op = "eq" /\ last.res = "True"
    /\ Pristine(last.self) /\ Pristine(last.arg) /\ last.self # last.arg

\* C7: in a hash-based mapping an entry stored under Invoker(m) is found by
\* a lookup with m and the other way round, and the mapping never holds two
\* entries for m and Invoker(m).
C7_Interchangeable ==
    /\ \A i \in 1..Len(d) : \A k \in GoodKeys :
          (d[i].key \in GoodKeys /\ SameKey(d[i].key, k)) =>
              /\ KeyHash(k) = [exc |-> "", val |-> d[i].hash]
              /\ FirstHit(k, d[i].hash) = i
              /\ ~HitRaises(k, i)
    /\ \A i, j \in 1..Len(d) :
          (i # j /\ d[i].key \in GoodKeys /\ d[j].key \in GoodKeys) =>
              ~SameKey(d[i].key, d[j].key)
    /\ (last.op = "get" /\ last.arg \in GoodKeys) =>
          \A i \in 1..Len(d) :
             (d[i].key \in GoodKeys /\ SameKey(d[i].key, last.arg)) =>
                 last.exc = "" /\ last.res = d[i].val
W_C7 ==
    /\ Len(d) >= 1 /\ Pristine(d[1].key)
    /\ last.op = "get" /\ last.arg \in UnboundMethods /\ last.res = d[1].val

\* C8: in sequential use hash(self.method) is computed only while no hash
\* call has returned yet; `_hash` changes only from None to the value the
\* computing caller holds, 0 included, and every hash call returns the value
\* the first one returned, also after the method's own hash has changed.
C8_Memoized ==
    /\ [](\A v \in live : firstHash[v] # None => hashSlot[v] = firstHash[v])
    /\ [](last.op = "hash" /\ last.exc = "" => Some(last.val) = firstHash[last.self])
    /\ [][\A v \in InvokerRefs : hashSlot'[v] # hashSlot[v] =>
              /\ hashSlot[v] = None
              /\ \E t \in Callers : /\ pc[t] = "hash_store" /\ frame[t].self = v
                                    /\ hashSlot'[v] = frame[t].h]_vars
    /\ [][\A t \in Callers : HashCompute(t) =>
              /\ hashSlot[frame[t].self] = None
              /\ firstHash[frame[t].self] = None]_vars
W_C8 ==
    /\ last.op = "hash" /\ last.res = "memo" /\ last.val = 0
    /\ Pristine(last.self) /\ MethodHash(wrapped[last.self]) = 1

\* C9: callers racing through __hash__ of one Invoker all hold, store and
\* return one and the same value, and every later hash call returns it.
C9_RaceIsBenign ==
    \A v \in live :
       /\ \A t \in Callers, u \in Callers :
             (/\ pc[t] = "hash_store" /\ frame[t].self = v
              /\ pc[u] = "hash_store" /\ frame[u].self = v) => frame[t].h = frame[u].h
       /\ \A t \in Callers :
             (pc[t] = "hash_store" /\ frame[t].self = v) =>
                 /\ hashSlot[v] # None => hashSlot[v] = frame[t].h
                 /\ firstHash[v] # None => firstHash[v] = frame[t].h
       /\ firstHash[v] # None => hashSlot[v] = firstHash[v]
       /\ (last.op = "hash" /\ last.self = v /\ last.exc = "") =>
             Some(last.val) = firstHash[v]
W_C9 ==
    \E v \in live : \E t \in Callers, u \in Callers :
       /\ t # u
       /\ pc[t] = "hash_store" /\ frame[t].self = v
       /\ pc[u] = "idle" /\ hashSlot[v] # None
       /\ last.op = "hash" /\ last.self = v /\ last.res = "computed"

\* C10: every invocation calls get_instance once, before it calls the
\* method, passes the instance it resolved itself as the receiver, and
\* changes none of the slots method, injection and _hash.
C10_NoPerCallState ==
    /\ [](\A t \in Callers : pc[t] = "call_method" =>
              /\ frame[t].nres = 1
              /\ frame[t].inst \in Instances(injection[frame[t].self]))
    /\ [](last.op = "call" =>
              /\ last.nres = 1 /\ last.ncall <= 1
              /\ (last.ncall = 1 /\ last.term # NoTerm) => last.term.recv = last.ref)
    /\ [][((\E t \in Callers, v \in InvokerRefs, ak \in CallArgs :
               CallResolve(t, v, ak[1], ak[2]))
           \/ (\E t \in Callers : CallMethod(t))) => UNCHANGED fields]_vars
W_C10 ==
    \E t \in Callers, u \in Callers :
       /\ t # u /\ pc[t] = "call_method" /\ pc[u] = "idle"
       /\ last.op = "call" /\ last.ncall = 1 /\ last.self = frame[t].self
       /\ last.ref # frame[t].inst

====
